---- MODULE Spec2Model ----
(***************************************************************************)
(* Seat inventory of the bus booking service: MemStorage (src/storage.ts), *)
(* the booking routes (src/routes.ts) and the socket hold-seat handler    *)
(* (src/unnamed/part_000).                                                *)
(*                                                                         *)
(* Every storage method is an async function.  The part of a method that   *)
(* runs between two awaits is one atomic step (JavaScript runs it to       *)
(* completion); concurrent calls interleave at the awaits.                 *)
(***************************************************************************)
EXTENDS Integers, Sequences, FiniteSets, TLC

(* ------------------------------ bounds -------------------------------- *)

\* createBooking calls in one run (caps bookingIdCounter)
MaxBookings == 2
\* Trip records in one run (caps tripIdCounter)
MaxTrips == 2
\* getSeatAvailability calls suspended at `await this.getBus(busId)`
MaxPending == 2
\* holds placed in one run (caps the hold id counter)
MaxHolds == 1
\* how far repeated cancellations may push availableSeats above totalSeats
MaxOver == 1

(* ------------------------- request inputs ----------------------------- *)

\* bus 1 is seeded, bus 6 does not exist
ReqBusIds == {1, 6}
\* travel dates of the requests
Dates == {"2025-06-01"}
\* all travel dates any request carries
AllDates == {"2025-06-01", "2025-06-02"}
\* seat lists of booking requests: z.array(z.string()) accepts all of them
\* ("9Z" is no seat of the layout)
SeatLists ==
  { <<>>, <<"1A">>, <<"1A", "1B">>, <<"1A", "1A">>, <<"9Z">> }
\* the (busId, seats) of booking requests
BookingRequests ==
  {[busId |-> 1, seats |-> l] : l \in SeatLists}
    \cup {[busId |-> 6, seats |-> <<"1A">>]}
HoldSeats == {"1A", "1B"}
\* authenticated users: 1 and 2 are customers, 3 is an admin
UserIds == {1, 2, 3}
isAdmin(u) == u = 3

(* --------------------------- seeded catalogue -------------------------- *)

\* seedData: the five buses and their totalSeats
buses ==
  [id \in 1..5 |->
     [id |-> id,
      totalSeats |-> CASE id = 1 -> 30 [] id = 2 -> 40 [] id = 3 -> 25
                       [] id = 4 -> 35 [] OTHER -> 22]]

\* this.buses.get(id): the bus or undefined
NoBus == [id |-> 0, totalSeats |-> 0]
getBus(id) == IF id \in DOMAIN buses THEN buses[id] ELSE NoBus

rows == 6
seatsPerRow == 4
RowStr == <<"1", "2", "3", "4", "5", "6">>
\* String.fromCharCode(65 + n)
fromCharCode65(n) == <<"A", "B", "C", "D", "E">>[n + 1]

\* seat number of (row, col), for the columns that get a seat
seatNumberOf(row, col) ==
  IF row = rows THEN RowStr[row] \o fromCharCode65(col)
  ELSE IF col > 2 THEN RowStr[row] \o fromCharCode65(col - 1)
  ELSE RowStr[row] \o fromCharCode65(col)

seatIsVisible(row, col) ==
  IF row = rows THEN TRUE
  ELSE ~ (\/ (row = 1 /\ (col = 2 \/ col = 3))
          \/ (row = 3 /\ col = 0)
          \/ (row = 4 /\ (col = 0 \/ col = 1)))

RECURSIVE layoutCols(_, _, _)
layoutCols(row, col, cols) ==
  IF col >= cols THEN <<>>
  ELSE IF row # rows /\ col = 2 THEN layoutCols(row, col + 1, cols)
  ELSE << [seatNumber |-> seatNumberOf(row, col),
           rowPosition |-> row,
           columnPosition |-> col,
           isVisible |-> seatIsVisible(row, col)] >>
       \o layoutCols(row, col + 1, cols)

RECURSIVE layoutRows(_)
layoutRows(row) ==
  IF row > rows THEN <<>>
  ELSE layoutCols(row, 0, IF row = rows THEN 5 ELSE seatsPerRow)
       \o layoutRows(row + 1)

\* the layout createBus gives every bus, in insertion order
createDefaultSeatLayout == layoutRows(1)

\* the seatLayouts rows of one bus
getBusSeatLayout(busId) ==
  IF busId \in DOMAIN buses THEN createDefaultSeatLayout ELSE <<>>

Range(s) == {s[i] : i \in DOMAIN s}
LayoutSeats(busId) == {x.seatNumber : x \in Range(getBusSeatLayout(busId))}

(* ------------------------------ state --------------------------------- *)

VARIABLES
  trips,                  \* Map<number, Trip>, in insertion order (index = id)
  tripIdCounter,
  tripSeatAvailability,   \* Map keyed `${trip.id}-${seatNumber}`
  bookings,               \* Map<number, Booking>, index = id
  bookingIdCounter,
  bookingDetails,         \* Map<number, BookingDetail>, index = id
  bookingDetailIdCounter,
  creating,               \* getSeatAvailability calls suspended before creating the trip
  timers,                 \* pending setTimeout callbacks of hold-seat
  holdIdCounter,
  io,                     \* events io.emit sent during the last step
  reply,                  \* what the last call returned or threw
  createLog               \* history: per createBooking call (index = booking id) its
                          \* response and what it took off the trip counter

vars == << trips, tripIdCounter, tripSeatAvailability, bookings,
           bookingIdCounter, bookingDetails, bookingDetailIdCounter,
           creating, timers, holdIdCounter, io, reply, createLog >>

storageVars == << trips, tripIdCounter, tripSeatAvailability, bookings,
                  bookingIdCounter, bookingDetails, bookingDetailIdCounter >>

Init ==
  /\ trips = <<>>
  /\ tripIdCounter = 1
  /\ tripSeatAvailability = << >>
  /\ bookings = <<>>
  /\ bookingIdCounter = 1
  /\ bookingDetails = <<>>
  /\ bookingDetailIdCounter = 1
  /\ creating = [k \in ReqBusIds \X AllDates |-> 0]
  /\ timers = {}
  /\ holdIdCounter = 1
  /\ io = <<>>
  /\ reply = [op |-> "none", result |-> "none"]
  /\ createLog = <<>>

(* ------------------------- storage helpers ---------------------------- *)

\* a lookup that takes the first trip of the bus whatever its date
findTrip_AnyDate(busId, date) ==
  LET hits == {i \in 1..Len(trips) : trips[i].busId = busId}
  IN IF hits = {} THEN 0 ELSE CHOOSE i \in hits : \A j \in hits : i <= j

\* Array.from(this.trips.values()).find(...): the first trip of (busId, date), 0 if none
findTrip(busId, date) ==
  LET hits == {i \in 1..Len(trips) : trips[i].busId = busId /\ trips[i].date = date}
  IN IF hits = {} THEN 0 ELSE CHOOSE i \in hits : \A j \in hits : i <= j

\* the details of one booking, in insertion order
detailsOf(bookingId) ==
  SelectSeq(bookingDetails, LAMBDA d : d.bookingId = bookingId)

seatsOf(bookingId) == {d.seatNumber : d \in Range(detailsOf(bookingId))}

\* details.map(detail => detail.seatNumber): the seat list of a booking
seatListOf(bookingId) ==
  [i \in 1..Len(detailsOf(bookingId)) |-> detailsOf(bookingId)[i].seatNumber]

\* a stored seat record: createBooking and cancelBooking store {tripId, seatNumber, isAvailable}
\* only; holdId is 0 unless the seat is held
seatRecord(tripId, seatNumber, isAvailable, holdId) ==
  [tripId |-> tripId, seatNumber |-> seatNumber,
   isAvailable |-> isAvailable, holdId |-> holdId]

\* this.tripSeatAvailability.set(key, rec) for every seat of `seats` of trip tripId
setSeats(tsa, tripId, seats, isAvailable) ==
  [k \in DOMAIN tsa \cup {<<tripId, s>> : s \in seats} |->
     IF k[1] = tripId /\ k[2] \in seats
     THEN seatRecord(tripId, k[2], isAvailable, 0)
     ELSE tsa[k]]

\* the confirmed bookings' seats of (busId, date), as getSeatAvailability collects them
bookedSeats(busId, date) ==
  UNION { seatsOf(b) : b \in { i \in 1..Len(bookings) :
                                 /\ bookings[i].busId = busId
                                 /\ bookings[i].travelDate = date
                                 /\ bookings[i].status = "confirmed" } }

\* a response that reads the seat records alone and skips the scan of the
\* confirmed bookings
seatAvailabilityIn_RecordsOnly(tsa, tripId, busId, date) ==
  LET layout == getBusSeatLayout(busId)
  IN [i \in 1..Len(layout) |->
        LET key == <<tripId, layout[i].seatNumber>>
        IN [seatNumber |-> layout[i].seatNumber,
            isAvailable |-> (key \in DOMAIN tsa => tsa[key].isAvailable),
            rowPosition |-> layout[i].rowPosition,
            columnPosition |-> layout[i].columnPosition,
            isVisible |-> layout[i].isVisible]]

\* the list getSeatAvailability builds from the seat records tsa of trip tripId
\* and the confirmed bookings
seatAvailabilityIn(tsa, tripId, busId, date) ==
  LET layout == getBusSeatLayout(busId)
  IN [i \in 1..Len(layout) |->
        LET key == <<tripId, layout[i].seatNumber>>
        IN [seatNumber |-> layout[i].seatNumber,
            isAvailable |->
              /\ (key \in DOMAIN tsa => tsa[key].isAvailable)
              /\ layout[i].seatNumber \notin bookedSeats(busId, date),
            rowPosition |-> layout[i].rowPosition,
            columnPosition |-> layout[i].columnPosition,
            isVisible |-> layout[i].isVisible]]

\* the list getSeatAvailability returns when it works against trip tripId
seatAvailabilityOf(tripId, busId, date) ==
  seatAvailabilityIn(tripSeatAvailability, tripId, busId, date)

Pending == LET keys == ReqBusIds \X AllDates
               RECURSIVE sum(_)
               sum(S) == IF S = {} THEN 0
                         ELSE LET k == CHOOSE x \in S : TRUE
                              IN creating[k] + sum(S \ {k})
           IN sum(keys)

(* ------------------------- getSeatAvailability ------------------------ *)

\* a getSeatAvailability that writes the seat records of the trip it found
\* anew on every call
GetSeatAvailabilityFind_Rewrites(busId, date) ==
  /\ io' = <<>>
  /\ IF findTrip(busId, date) # 0
     THEN /\ tripSeatAvailability' =
               setSeats(tripSeatAvailability, findTrip(busId, date),
                        LayoutSeats(busId), TRUE)
          /\ reply' = [op |-> "getSeatAvailability", result |-> "200",
                        body |-> seatAvailabilityIn(tripSeatAvailability',
                                                    findTrip(busId, date),
                                                    busId, date)]
          /\ UNCHANGED << trips, tripIdCounter, bookings, bookingIdCounter,
                          bookingDetails, bookingDetailIdCounter, creating,
                          timers, holdIdCounter, createLog >>
     ELSE /\ Pending < MaxPending
          /\ Len(trips) + Pending < MaxTrips
          /\ creating' = [creating EXCEPT ![<<busId, date>>] = @ + 1]
          /\ reply' = [op |-> "getSeatAvailability", result |-> "pending"]
          /\ UNCHANGED << storageVars, timers, holdIdCounter, createLog >>

\* from the call to the first point where the method has either returned or
\* is suspended at `await this.getBus(busId)` (no trip found)
GetSeatAvailabilityFind(busId, date) ==
  /\ io' = <<>>
  /\ IF findTrip(busId, date) # 0
     THEN /\ reply' = [op |-> "getSeatAvailability", result |-> "200",
                        body |-> seatAvailabilityOf(findTrip(busId, date),
                                                    busId, date)]
          /\ UNCHANGED << storageVars, creating, timers, holdIdCounter, createLog >>
     ELSE /\ Pending < MaxPending
          /\ Len(trips) + Pending < MaxTrips
          /\ creating' = [creating EXCEPT ![<<busId, date>>] = @ + 1]
          /\ reply' = [op |-> "getSeatAvailability", result |-> "pending"]
          /\ UNCHANGED << storageVars, timers, holdIdCounter, createLog >>

\* a creation that takes the trip id before it looks the bus up
GetSeatAvailabilityCreate_CounterFirst(busId, date) ==
  /\ creating[<<busId, date>>] > 0
  /\ creating' = [creating EXCEPT ![<<busId, date>>] = @ - 1]
  /\ io' = <<>>
  /\ UNCHANGED << bookings, bookingIdCounter, bookingDetails,
                  bookingDetailIdCounter, timers, holdIdCounter, createLog >>
  /\ tripIdCounter' = tripIdCounter + 1
  /\ IF getBus(busId) = NoBus
     THEN /\ reply' = [op |-> "getSeatAvailability", result |-> "500"]
          /\ UNCHANGED << trips, tripSeatAvailability >>
     ELSE /\ trips' = Append(trips,
                             [id |-> tripIdCounter, busId |-> busId,
                              date |-> date,
                              availableSeats |-> getBus(busId).totalSeats])
          /\ tripSeatAvailability' =
               setSeats(tripSeatAvailability, tripIdCounter,
                        LayoutSeats(busId), TRUE)
          /\ reply' = [op |-> "getSeatAvailability", result |-> "200",
                        body |-> seatAvailabilityIn(tripSeatAvailability',
                                                    tripIdCounter, busId, date)]

\* the rest of a suspended call: throw if the bus is missing, else create the
\* trip and its seat records and return
GetSeatAvailabilityCreate(busId, date) ==
  /\ creating[<<busId, date>>] > 0
  /\ creating' = [creating EXCEPT ![<<busId, date>>] = @ - 1]
  /\ io' = <<>>
  /\ UNCHANGED << bookings, bookingIdCounter, bookingDetails,
                  bookingDetailIdCounter, timers, holdIdCounter, createLog >>
  /\ IF getBus(busId) = NoBus
     THEN /\ reply' = [op |-> "getSeatAvailability", result |-> "500"]
          /\ UNCHANGED << trips, tripIdCounter, tripSeatAvailability >>
     ELSE LET tripId == tripIdCounter
          IN /\ tripIdCounter' = tripIdCounter + 1
             /\ trips' = Append(trips,
                                [id |-> tripId, busId |-> busId, date |-> date,
                                 availableSeats |-> getBus(busId).totalSeats])
             /\ tripSeatAvailability' =
                  setSeats(tripSeatAvailability, tripId, LayoutSeats(busId), TRUE)
             /\ reply' = [op |-> "getSeatAvailability", result |-> "200",
                           body |-> seatAvailabilityIn(tripSeatAvailability',
                                                       tripId, busId, date)]

(* ------------------------------ bookings ------------------------------ *)

RECURSIVE newDetails(_, _, _)
newDetails(seats, detailId, bookingId) ==
  IF seats = <<>> THEN <<>>
  ELSE << [id |-> detailId, bookingId |-> bookingId, seatNumber |-> Head(seats)] >>
       \o newDetails(Tail(seats), detailId + 1, bookingId)

\* a createBooking that has written the booking and its first seat only when
\* other calls get to run
PostBooking_Torn(user, busId, date, status, seats) ==
  LET id == bookingIdCounter
      t == findTrip(busId, date)
      first == IF seats = <<>> THEN <<>> ELSE << Head(seats) >>
  IN /\ bookingIdCounter <= MaxBookings
     /\ bookingIdCounter' = id + 1
     /\ bookings' = Append(bookings,
                           [id |-> id, userId |-> user, busId |-> busId,
                            travelDate |-> date, status |-> status])
     /\ bookingDetails' =
          bookingDetails \o newDetails(first, bookingDetailIdCounter, id)
     /\ bookingDetailIdCounter' = bookingDetailIdCounter + Len(first)
     /\ IF t # 0
        THEN /\ trips' = [trips EXCEPT ![t].availableSeats = @ - Len(first)]
             /\ tripSeatAvailability' =
                  setSeats(tripSeatAvailability, t, Range(first), FALSE)
        ELSE UNCHANGED << trips, tripSeatAvailability >>
     /\ reply' = [op |-> "createBooking",
                  result |-> IF getBus(busId) = NoBus THEN "500" ELSE "201"]
     /\ createLog' = Append(createLog,
                            [result |-> reply'.result,
                             taken |-> IF t # 0 THEN Len(first) ELSE 0])
     /\ io' = <<>>
     /\ UNCHANGED << tripIdCounter, creating, timers, holdIdCounter >>

\* a route that leaves the userId of the payload in the booking
routeUserId_TrustsPayload(user, payloadUserId) == payloadUserId

\* booking.userId = req.user.id: the userId the route hands to createBooking
routeUserId(user, payloadUserId) == user

\* POST /api/bookings with MemStorage.createBooking: the route stores the
\* requester as userId; the booking, its details, the trip counter and the
\* seat records are written before the first await; getBookingWithDetails
\* then throws if the bus is missing (the route answers 500), which depends on
\* the catalogue alone, so the handler is one step.  payloadUserId is the
\* userId of the request body, user the authenticated requester.
PostBookingAs(user, payloadUserId, busId, date, status, seats) ==
  LET id == bookingIdCounter
      t == findTrip(busId, date)
  IN /\ bookingIdCounter <= MaxBookings
     /\ bookingIdCounter' = id + 1
     /\ bookings' = Append(bookings,
                           [id |-> id,
                            userId |-> routeUserId(user, payloadUserId),
                            busId |-> busId,
                            travelDate |-> date, status |-> status])
     /\ bookingDetails' =
          bookingDetails \o newDetails(seats, bookingDetailIdCounter, id)
     /\ bookingDetailIdCounter' = bookingDetailIdCounter + Len(seats)
     /\ IF t # 0
        THEN /\ trips' = [trips EXCEPT ![t].availableSeats = @ - Len(seats)]
             /\ tripSeatAvailability' =
                  setSeats(tripSeatAvailability, t, Range(seats), FALSE)
        ELSE UNCHANGED << trips, tripSeatAvailability >>
     /\ reply' = [op |-> "createBooking",
                  result |-> IF getBus(busId) = NoBus THEN "500" ELSE "201"]
     /\ createLog' = Append(createLog,
                            [result |-> reply'.result,
                             taken |-> IF t # 0 THEN Len(seats) ELSE 0])
     /\ io' = <<>>
     /\ UNCHANGED << tripIdCounter, creating, timers, holdIdCounter >>

\* POST /api/bookings of requester `user`, whatever userId the payload carries
PostBooking(user, busId, date, status, seats) ==
  \E payloadUserId \in UserIds :
     PostBookingAs(user, payloadUserId, busId, date, status, seats)

\* MemStorage.cancelBooking up to its first await, on a stored booking
cancelBooking(id) ==
  LET booking == bookings[id]
      details == detailsOf(id)
      t == findTrip(booking.busId, booking.travelDate)
  IN /\ bookings' = [bookings EXCEPT ![id].status = "cancelled"]
     /\ IF t # 0
        THEN /\ trips' = [trips EXCEPT ![t].availableSeats = @ + Len(details)]
             /\ tripSeatAvailability' =
                  setSeats(tripSeatAvailability, t, seatsOf(id), TRUE)
        ELSE UNCHANGED << trips, tripSeatAvailability >>

\* bound of the model: repeated cancellations raise the counter without limit
CancelWithinBound(id) ==
  LET t == findTrip(bookings[id].busId, bookings[id].travelDate)
  IN t # 0 =>
       trips[t].availableSeats + Len(detailsOf(id))
         <= getBus(bookings[id].busId).totalSeats + MaxOver

\* a cancel route that answers 200 for a booking that is not stored
PostCancel_MissingIsOk(user, id) ==
  /\ io' = <<>>
  /\ UNCHANGED << tripIdCounter, bookingIdCounter, bookingDetails,
                  bookingDetailIdCounter, creating, timers, holdIdCounter,
                  createLog >>
  /\ IF id \notin 1..Len(bookings)
     THEN /\ reply' = [op |-> "cancelBooking", result |-> "200"]
          /\ UNCHANGED << bookings, trips, tripSeatAvailability >>
     ELSE IF getBus(bookings[id].busId) = NoBus
     THEN /\ reply' = [op |-> "cancelBooking", result |-> "500"]
          /\ UNCHANGED << bookings, trips, tripSeatAvailability >>
     ELSE IF ~ isAdmin(user) /\ bookings[id].userId # user
     THEN /\ reply' = [op |-> "cancelBooking", result |-> "403"]
          /\ UNCHANGED << bookings, trips, tripSeatAvailability >>
     ELSE /\ CancelWithinBound(id)
          /\ cancelBooking(id)
          /\ reply' = [op |-> "cancelBooking", result |-> "200"]

\* a cancel route without the owner-or-admin check
PostCancel_NoAuth(user, id) ==
  /\ io' = <<>>
  /\ UNCHANGED << tripIdCounter, bookingIdCounter, bookingDetails,
                  bookingDetailIdCounter, creating, timers, holdIdCounter,
                  createLog >>
  /\ IF id \notin 1..Len(bookings)
     THEN /\ reply' = [op |-> "cancelBooking", result |-> "404"]
          /\ UNCHANGED << bookings, trips, tripSeatAvailability >>
     ELSE IF getBus(bookings[id].busId) = NoBus
     THEN /\ reply' = [op |-> "cancelBooking", result |-> "500"]
          /\ UNCHANGED << bookings, trips, tripSeatAvailability >>
     ELSE /\ CancelWithinBound(id)
          /\ cancelBooking(id)
          /\ reply' = [op |-> "cancelBooking", result |-> "200"]

\* POST /api/bookings/:id/cancel: getBooking (404 without the booking, a throw
\* without its bus), the owner-or-admin check, then cancelBooking.  The awaits
\* between them separate only reads of what never changes once a booking is
\* stored (its existence, its userId, its bus), and cancelBooking writes before
\* its own first await, so the handler is one step.
PostCancel(user, id) ==
  /\ io' = <<>>
  /\ UNCHANGED << tripIdCounter, bookingIdCounter, bookingDetails,
                  bookingDetailIdCounter, creating, timers, holdIdCounter,
                  createLog >>
  /\ IF id \notin 1..Len(bookings)
     THEN /\ reply' = [op |-> "cancelBooking", result |-> "404"]
          /\ UNCHANGED << bookings, trips, tripSeatAvailability >>
     ELSE IF getBus(bookings[id].busId) = NoBus
     THEN /\ reply' = [op |-> "cancelBooking", result |-> "500"]
          /\ UNCHANGED << bookings, trips, tripSeatAvailability >>
     ELSE IF ~ isAdmin(user) /\ bookings[id].userId # user
     THEN /\ reply' = [op |-> "cancelBooking", result |-> "403"]
          /\ UNCHANGED << bookings, trips, tripSeatAvailability >>
     ELSE /\ CancelWithinBound(id)
          /\ cancelBooking(id)
          /\ reply' = [op |-> "cancelBooking", result |-> "200"]

(* -------------------------------- holds ------------------------------- *)

\* the trip a hold of (busId, seatNumber) works on: the handler passes no date,
\* so it is the bus's first trip, 0 if the bus has none
holdTrip(busId) ==
  LET hits == {i \in 1..Len(trips) : trips[i].busId = busId}
  IN IF hits = {} THEN 0 ELSE CHOOSE i \in hits : \A j \in hits : i <= j

\* the state of a seat record
seatState(rec) ==
  IF rec.holdId # 0 THEN "HELD"
  ELSE IF rec.isAvailable THEN "AVAILABLE" ELSE "BOOKED"

\* storage.holdSeat: what it throws, "ok" if the seat goes AVAILABLE -> HELD
holdSeatResult(busId, seatNumber) ==
  LET t == holdTrip(busId)
  IN IF t = 0 \/ <<t, seatNumber>> \notin DOMAIN tripSeatAvailability
     THEN "NotFound"
     ELSE IF seatState(tripSeatAvailability[<<t, seatNumber>>]) # "AVAILABLE"
     THEN "SeatUnavailable"
     ELSE "ok"

\* storage.holdSeat on an AVAILABLE seat: HELD under a fresh hold id, one seat
\* fewer available
holdSeat(busId, seatNumber) ==
  LET t == holdTrip(busId)
  IN /\ tripSeatAvailability' =
          [tripSeatAvailability EXCEPT ![<<t, seatNumber>>] =
             seatRecord(t, seatNumber, FALSE, holdIdCounter)]
     /\ trips' = [trips EXCEPT ![t].availableSeats = @ - 1]
     /\ holdIdCounter' = holdIdCounter + 1

\* a releaseSeat that frees the seat whatever its state
releaseSeat_Unconditional(busId, seatNumber) ==
  LET t == holdTrip(busId)
  IN IF t # 0 /\ <<t, seatNumber>> \in DOMAIN tripSeatAvailability
     THEN /\ tripSeatAvailability' =
               [tripSeatAvailability EXCEPT ![<<t, seatNumber>>] =
                  seatRecord(t, seatNumber, TRUE, 0)]
          /\ trips' = [trips EXCEPT ![t].availableSeats = @ + 1]
     ELSE UNCHANGED << trips, tripSeatAvailability >>

\* storage.releaseSeat: HELD -> AVAILABLE, a no-op on a seat that is not held
releaseSeat(busId, seatNumber) ==
  LET t == holdTrip(busId)
  IN IF /\ t # 0
        /\ <<t, seatNumber>> \in DOMAIN tripSeatAvailability
        /\ seatState(tripSeatAvailability[<<t, seatNumber>>]) = "HELD"
     THEN /\ tripSeatAvailability' =
               [tripSeatAvailability EXCEPT ![<<t, seatNumber>>] =
                  seatRecord(t, seatNumber, TRUE, 0)]
          /\ trips' = [trips EXCEPT ![t].availableSeats = @ + 1]
     ELSE UNCHANGED << trips, tripSeatAvailability >>

seatStatusChanged(busId, seatNumber, status) ==
  [busId |-> busId, seatNumber |-> seatNumber, status |-> status]

\* a hold-seat handler that places the hold and sets no release timer
HoldSeatUpTo_NoTimer(maxHolds, busId, seatNumber) ==
  LET r == holdSeatResult(busId, seatNumber)
  IN /\ reply' = [op |-> "hold-seat", result |-> r]
     /\ UNCHANGED << tripIdCounter, bookings, bookingIdCounter, bookingDetails,
                     bookingDetailIdCounter, creating, createLog, timers >>
     /\ IF r = "ok"
        THEN /\ holdIdCounter <= maxHolds
             /\ holdSeat(busId, seatNumber)
             /\ io' = << seatStatusChanged(busId, seatNumber, "held") >>
        ELSE /\ io' = <<>>
             /\ UNCHANGED << trips, tripSeatAvailability, holdIdCounter >>

\* socket 'hold-seat': a throw of holdSeat ends the handler; otherwise the
\* 'held' event is sent and the release timer is set.  At most maxHolds holds
\* are placed in one run.
HoldSeatUpTo(maxHolds, busId, seatNumber) ==
  LET r == holdSeatResult(busId, seatNumber)
  IN /\ reply' = [op |-> "hold-seat", result |-> r]
     /\ UNCHANGED << tripIdCounter, bookings, bookingIdCounter, bookingDetails,
                     bookingDetailIdCounter, creating, createLog >>
     /\ IF r = "ok"
        THEN /\ holdIdCounter <= maxHolds
             /\ holdSeat(busId, seatNumber)
             /\ io' = << seatStatusChanged(busId, seatNumber, "held") >>
             /\ timers' = timers \cup
                  {[busId |-> busId, seatNumber |-> seatNumber,
                    holdId |-> holdIdCounter]}
        ELSE /\ io' = <<>>
             /\ UNCHANGED << trips, tripSeatAvailability, holdIdCounter, timers >>

\* a hold-seat handler that sends 'held' and sets the timer although holdSeat threw
HoldSeat_IgnoresThrow(busId, seatNumber) ==
  LET r == holdSeatResult(busId, seatNumber)
  IN /\ reply' = [op |-> "hold-seat", result |-> r]
     /\ UNCHANGED << tripIdCounter, bookings, bookingIdCounter, bookingDetails,
                     bookingDetailIdCounter, creating, createLog >>
     /\ io' = << seatStatusChanged(busId, seatNumber, "held") >>
     /\ timers' = timers \cup
          {[busId |-> busId, seatNumber |-> seatNumber, holdId |-> holdIdCounter]}
     /\ IF r = "ok"
        THEN /\ holdIdCounter <= MaxHolds
             /\ holdSeat(busId, seatNumber)
        ELSE UNCHANGED << trips, tripSeatAvailability, holdIdCounter >>

\* socket 'hold-seat'
HoldSeat(busId, seatNumber) == HoldSeatUpTo(MaxHolds, busId, seatNumber)

\* the setTimeout callback of a hold: release, then send 'available'
HoldTimeout(timer) ==
  /\ timer \in timers
  /\ timers' = timers \ {timer}
  /\ releaseSeat(timer.busId, timer.seatNumber)
  /\ io' = << seatStatusChanged(timer.busId, timer.seatNumber, "available") >>
  /\ reply' = [op |-> "hold-timeout", result |-> "ok"]
  /\ UNCHANGED << tripIdCounter, bookings, bookingIdCounter, bookingDetails,
                  bookingDetailIdCounter, creating, holdIdCounter, createLog >>

(* --------------------------- specification ---------------------------- *)

Customers == {1}
ReqStatuses == {"confirmed"}

Next ==
  \/ \E busId \in ReqBusIds, date \in Dates : GetSeatAvailabilityFind(busId, date)
  \/ \E busId \in ReqBusIds, date \in Dates : GetSeatAvailabilityCreate(busId, date)
  \/ \E user \in Customers, req \in BookingRequests, date \in Dates,
        status \in ReqStatuses :
          PostBooking(user, req.busId, date, status, req.seats)
  \/ \E user \in UserIds, id \in 1..(MaxBookings + 1) : PostCancel(user, id)
  \/ \E busId \in ReqBusIds, seatNumber \in HoldSeats : HoldSeat(busId, seatNumber)
  \/ \E timer \in timers : HoldTimeout(timer)

Spec == Init /\ [][Next]_vars

(* ------------------------------ claims -------------------------------- *)

Keys == ReqBusIds \X Dates
ReqSeats == UNION {Range(l) : l \in SeatLists} \cup HoldSeats

\* the CONFIRMED bookings of (busId, date) that contain seat s
confirmedWith(busId, date, s) ==
  { b \in 1..Len(bookings) :
      /\ bookings[b].busId = busId
      /\ bookings[b].travelDate = date
      /\ bookings[b].status = "confirmed"
      /\ s \in seatsOf(b) }

\* seat s is HELD in some trip of (busId, date)
heldIn(busId, date, s) ==
  \E t \in 1..Len(trips) :
     /\ trips[t].busId = busId /\ trips[t].date = date
     /\ <<t, s>> \in DOMAIN tripSeatAvailability
     /\ seatState(tripSeatAvailability[<<t, s>>]) = "HELD"

\* the seats of trip t whose record is AVAILABLE
availableSeatsOf(t) ==
  { k \in DOMAIN tripSeatAvailability :
      k[1] = t /\ seatState(tripSeatAvailability[k]) = "AVAILABLE" }

Succeeded(r) == r.result \in {"200", "201"}

\* C1: for every trip and seat at most one reservation is active: the seat is
\* never in two CONFIRMED bookings, and never both held and booked.
C1_Exclusivity ==
  \A k \in Keys, s \in ReqSeats :
     /\ Cardinality(confirmedWith(k[1], k[2], s)) <= 1
     /\ ~ (heldIn(k[1], k[2], s) /\ confirmedWith(k[1], k[2], s) # {})

\* C2: for every materialized trip, availableSeats equals the number of the
\* trip's seats whose state is AVAILABLE.
C2_CounterConsistency ==
  \A t \in 1..Len(trips) :
     trips[t].availableSeats = Cardinality(availableSeatsOf(t))

\* C3: of the createBooking calls that each target the same single seat of the
\* same trip exactly one succeeds, and exactly one CONFIRMED booking then
\* contains the seat (checked as long as no such booking has been cancelled).
C3_OneWinner ==
  \A k \in Keys, s \in ReqSeats :
     LET calls == { b \in 1..Len(bookings) :
                      /\ bookings[b].busId = k[1]
                      /\ bookings[b].travelDate = k[2]
                      /\ seatListOf(b) = << s >> }
     IN (Cardinality(calls) >= 2
           /\ \A b \in calls : bookings[b].status = "confirmed")
        => /\ Cardinality({b \in calls : Succeeded(createLog[b])}) = 1
           /\ Cardinality(confirmedWith(k[1], k[2], s)) = 1

\* the state of seat s in the first trip of (busId, date), "NONE" without a record
stateOf(busId, date, s) ==
  LET t == findTrip(busId, date)
  IN IF t = 0 \/ <<t, s>> \notin DOMAIN tripSeatAvailability THEN "NONE"
     ELSE seatState(tripSeatAvailability[<<t, s>>])

\* C4: a createBooking whose seat list contains a BOOKED seat fails, stores no
\* booking and no seat assignment, and leaves the seats and the counter as
\* they were.
C4_AtomicMultiSeat ==
  [][ \A user \in Customers, req \in BookingRequests, date \in Dates,
        status \in ReqStatuses :
        ( /\ PostBooking(user, req.busId, date, status, req.seats)
          /\ \E s \in Range(req.seats) : stateOf(req.busId, date, s) = "BOOKED" )
        => /\ ~ Succeeded(reply')
           /\ UNCHANGED << bookings, bookingDetails, trips, tripSeatAvailability >>
    ]_vars

\* C5: cancelBooking on a CANCELLED booking fails and changes nothing.
C5_DoubleCancelRejected ==
  [][ \A user \in UserIds, id \in 1..(MaxBookings + 1) :
        ( /\ PostCancel(user, id)
          /\ id \in 1..Len(bookings)
          /\ bookings[id].status = "cancelled" )
        => /\ ~ Succeeded(reply')
           /\ UNCHANGED storageVars
    ]_vars

\* C6: cancelling a CONFIRMED booking gives its seats back exactly as its
\* createBooking took them: every seat of the booking is AVAILABLE afterwards
\* and the counter rises by what that createBooking took off it, so the round
\* trip leaves the counter at its pre-booking value.
C6_CancellationRoundTrip ==
  [][ \A user \in UserIds, id \in 1..(MaxBookings + 1) :
        ( /\ PostCancel(user, id)
          /\ id \in 1..Len(bookings)
          /\ bookings[id].status = "confirmed"
          /\ Succeeded(reply') )
        => LET t == findTrip(bookings[id].busId, bookings[id].travelDate)
           IN t # 0 =>
                /\ \A s \in seatsOf(id) :
                     seatState(tripSeatAvailability'[<<t, s>>]) = "AVAILABLE"
                /\ trips'[t].availableSeats
                     = trips[t].availableSeats + createLog[id].taken
    ]_vars

\* C7: at most one Trip per (busId, date) in every reachable state.
C7_OneTripPerKey ==
  \A i, j \in 1..Len(trips) :
     (trips[i].busId = trips[j].busId /\ trips[i].date = trips[j].date) => i = j

\* what a getSeatAvailability(busId, date) call made now returns
queryNow(busId, date) ==
  IF findTrip(busId, date) # 0
  THEN seatAvailabilityOf(findTrip(busId, date), busId, date)
  ELSE IF getBus(busId) = NoBus THEN << "Bus not found" >>
  ELSE seatAvailabilityOf(0, busId, date)

\* C8: a createBooking that fails stores no booking and no seat assignment,
\* changes no seat and no counter, and leaves the availability query result
\* as it was.
C8_FailedBookingNoTrace ==
  [][ \A user \in Customers, req \in BookingRequests, date \in Dates,
        status \in ReqStatuses :
        ( /\ PostBooking(user, req.busId, date, status, req.seats)
          /\ ~ Succeeded(reply') )
        => /\ UNCHANGED << bookings, bookingDetails, trips, tripSeatAvailability >>
           /\ \A k \in Keys : queryNow(k[1], k[2])' = queryNow(k[1], k[2])
    ]_vars

HasDuplicate(l) == \E i, j \in DOMAIN l : i # j /\ l[i] = l[j]

\* C9: createBooking rejects an empty seat list and one with a duplicate seat,
\* storing no booking and changing no seat and no counter.
C9_SeatListValidated ==
  [][ \A user \in Customers, req \in BookingRequests, date \in Dates,
        status \in ReqStatuses :
        ( /\ PostBooking(user, req.busId, date, status, req.seats)
          /\ (req.seats = <<>> \/ HasDuplicate(req.seats)) )
        => /\ ~ Succeeded(reply')
           /\ UNCHANGED << bookings, bookingDetails, trips, tripSeatAvailability >>
    ]_vars

\* C10: cancelBooking makes a seat AVAILABLE only if the seat was BOOKED by the
\* booking being cancelled: the booking is CONFIRMED and holds the seat, the
\* seat was BOOKED, and no other CONFIRMED booking holds it.
C10_CancelFreesOwnSeatsOnly ==
  [][ \A user \in UserIds, id \in 1..(MaxBookings + 1) :
        PostCancel(user, id)
        => \A k \in DOMAIN tripSeatAvailability :
             ( /\ seatState(tripSeatAvailability[k]) # "AVAILABLE"
               /\ seatState(tripSeatAvailability'[k]) = "AVAILABLE" )
             => /\ id \in 1..Len(bookings)
                /\ bookings[id].status = "confirmed"
                /\ k[2] \in seatsOf(id)
                /\ seatState(tripSeatAvailability[k]) = "BOOKED"
                /\ confirmedWith(bookings[id].busId, bookings[id].travelDate, k[2])
                     = {id}
    ]_vars

\* the state of seat s in the trip a hold of busId works on, "NONE" without a record
holdSeatState(busId, s) ==
  LET t == holdTrip(busId)
  IN IF t = 0 \/ <<t, s>> \notin DOMAIN tripSeatAvailability THEN "NONE"
     ELSE seatState(tripSeatAvailability[<<t, s>>])

MaxHoldsRace == 2

\* one bus, one seat list, its owner: bookings, cancellations and up to
\* MaxHoldsRace holds of the same seats with their timers
NextHolds ==
  \/ \E date \in Dates : GetSeatAvailabilityFind(1, date)
  \/ \E date \in Dates : GetSeatAvailabilityCreate(1, date)
  \/ \E date \in Dates : PostBooking(1, 1, date, "confirmed", << "1A" >>)
  \/ \E id \in 1..MaxBookings : PostCancel(1, id)
  \/ \E seatNumber \in HoldSeats : HoldSeatUpTo(MaxHoldsRace, 1, seatNumber)
  \/ \E timer \in timers : HoldTimeout(timer)

SpecHolds == Init /\ [][NextHolds]_vars

\* the hold id the seat of a timer is held under now, 0 if it is not held
holdIdNow(timer) ==
  LET t == holdTrip(timer.busId)
  IN IF t = 0 \/ <<t, timer.seatNumber>> \notin DOMAIN tripSeatAvailability
     THEN 0
     ELSE tripSeatAvailability[<<t, timer.seatNumber>>].holdId

FairSpecHolds ==
  Init /\ [][NextHolds]_vars /\ WF_vars(\E timer \in timers : HoldTimeout(timer))

\* seat s of bus 1 is held under hold h
heldUnder(s, h) ==
  LET t == holdTrip(1)
  IN /\ t # 0
     /\ <<t, s>> \in DOMAIN tripSeatAvailability
     /\ tripSeatAvailability[<<t, s>>].holdId = h

\* C13: a hold that was placed does not last for ever: its seat leaves the
\* hold, and when it is the timer of the hold that ends it the seat is
\* AVAILABLE afterwards and a new hold of it would be accepted.
C13_HoldExpires ==
  /\ \A s \in HoldSeats, h \in 1..MaxHoldsRace :
        heldUnder(s, h) ~> ~ heldUnder(s, h)
  /\ [][ \A timer \in timers :
           (HoldTimeout(timer) /\ holdIdNow(timer) = timer.holdId)
           => /\ holdSeatState(timer.busId, timer.seatNumber)' = "AVAILABLE"
              /\ holdSeatResult(timer.busId, timer.seatNumber)' = "ok" ]_vars

\* the only hold of the run was ended by its timer and seat 1A is free again
C13_Witness ==
  /\ reply.op = "hold-timeout"
  /\ io = << seatStatusChanged(1, "1A", "available") >>
  /\ holdIdCounter = 2 /\ timers = {} /\ Len(bookings) = 0
  /\ holdSeatState(1, "1A") = "AVAILABLE"


\* the 'available' events a step sends
availableEvents(events) ==
  { i \in 1..Len(events) : events[i].status = "available" }

\* C14: when the timer of a hold fires, an 'available' event is sent only if
\* the expiry took the seat from HELD to AVAILABLE.
C14_ExpiryEventOnlyOnTransition ==
  [][ \A timer \in timers :
        (HoldTimeout(timer) /\ availableEvents(io') # {})
        => /\ holdSeatState(timer.busId, timer.seatNumber) = "HELD"
           /\ holdSeatState(timer.busId, timer.seatNumber)' = "AVAILABLE" ]_vars

C16_MissingVehicleNoTrip ==
  [][ \A busId \in ReqBusIds, date \in Dates :
        ( /\ getBus(busId) = NoBus
          /\ \/ GetSeatAvailabilityFind(busId, date)
             \/ GetSeatAvailabilityCreate(busId, date) )
        => /\ ~ Succeeded(reply')
           /\ GetSeatAvailabilityCreate(busId, date) => reply'.result = "500"
           /\ UNCHANGED << trips, tripIdCounter, tripSeatAvailability >> ]_vars

\* a call for the missing bus 6 has failed after a trip of bus 1 was created
C16_Witness ==
  /\ reply = [op |-> "getSeatAvailability", result |-> "500"]
  /\ Len(trips) = 1 /\ tripIdCounter = 2
  /\ \A k \in DOMAIN tripSeatAvailability : k[1] = 1

\* C17: a cancel request for a booking id that is not stored fails with not
\* found and changes no booking, no seat record and no counter.
C17_CancelMissingBooking ==
  [][ \A user \in UserIds, id \in 1..(MaxBookings + 1) :
        (PostCancel(user, id) /\ id \notin 1..Len(bookings))
        => /\ reply'.result = "404"
           /\ UNCHANGED storageVars ]_vars

\* a cancel of a missing id was refused while a booking is stored
C17_Witness ==
  /\ reply = [op |-> "cancelBooking", result |-> "404"]
  /\ Len(bookings) = 1
  /\ bookings[1].status = "confirmed"


(* ---------------------- the status of the payload --------------------- *)

\* status values a request body may carry: the schema takes any text
PayloadStatuses == {"confirmed", "cancelled"}

\* bookings of seat 1A of bus 1 with any of these statuses, and their
\* cancellation
NextStatus ==
  \/ \E date \in Dates : GetSeatAvailabilityFind(1, date)
  \/ \E date \in Dates : GetSeatAvailabilityCreate(1, date)
  \/ \E date \in Dates, status \in PayloadStatuses :
        PostBooking(1, 1, date, status, << "1A" >>)
  \/ \E user \in UserIds, id \in 1..MaxBookings : PostCancel(user, id)

SpecStatus == Init /\ [][NextStatus]_vars

\* C18: a booking stored by a successful createBooking has status confirmed
\* whatever status the payload carried.
C18_StoredAsConfirmed ==
  [][ \A date \in Dates, status \in PayloadStatuses :
        (PostBooking(1, 1, date, status, << "1A" >>) /\ Succeeded(reply'))
        => bookings'[bookingIdCounter].status = "confirmed" ]_vars


\* one seat-status-changed event per seat of a list, in the order of the list
eventsFor(busId, seats, status) ==
  [i \in 1..Len(seats) |-> seatStatusChanged(busId, seats[i], status)]

\* C19: a successful createBooking sends one 'booked' event per booked seat
\* and a successful cancelBooking one 'available' event per released seat, in
\* the order the seats were written.
C19_BookingAndCancelNotify ==
  [][ /\ \A user \in Customers, req \in BookingRequests, date \in Dates,
           status \in ReqStatuses :
           ( /\ PostBooking(user, req.busId, date, status, req.seats)
             /\ Succeeded(reply') )
           => io' = eventsFor(req.busId, req.seats, "booked")
      /\ \A user \in UserIds, id \in 1..MaxBookings :
           ( /\ PostCancel(user, id)
             /\ Succeeded(reply') )
           => io' = eventsFor(bookings[id].busId, seatListOf(id), "available")
    ]_vars


\* user may cancel the stored booking id: its owner or an admin
mayCancel(user, id) == isAdmin(user) \/ bookings[id].userId = user

\* C20: a cancel request of a user who is neither the owner of the booking nor
\* an admin is rejected and changes no booking, seat record or counter; a
\* booking becomes cancelled only by a cancel request of its owner or an admin.
C20_CancelAuthorized ==
  [][ /\ \A user \in UserIds, id \in 1..Len(bookings) :
           (PostCancel(user, id) /\ ~ mayCancel(user, id))
           => /\ ~ Succeeded(reply')
              /\ UNCHANGED storageVars
      /\ \A id \in 1..Len(bookings) :
           ( /\ bookings[id].status # "cancelled"
             /\ bookings'[id].status = "cancelled" )
           => \E user \in UserIds : mayCancel(user, id) /\ PostCancel(user, id)
    ]_vars

\* the cancel of a stranger was refused and the booking is still confirmed
C20_Witness ==
  /\ reply = [op |-> "cancelBooking", result |-> "403"]
  /\ Len(bookings) >= 1
  /\ bookings[1].status = "confirmed"
  /\ bookings[1].userId \in Customers


(* ------------------------ availability queries ------------------------ *)

\* a returned list has exactly one entry per seat of the layout of busId, and
\* an entry says available exactly when no CONFIRMED booking of (busId, date)
\* contains the seat and the seat record of trip tripId in tsa is not
\* unavailable
soundResponse(list, tsa, tripId, busId, date) ==
  /\ \A s \in LayoutSeats(busId) :
        Cardinality({i \in DOMAIN list : list[i].seatNumber = s}) = 1
  /\ \A i \in DOMAIN list :
        /\ list[i].seatNumber \in LayoutSeats(busId)
        /\ list[i].isAvailable
             <=> /\ confirmedWith(busId, date, list[i].seatNumber) = {}
                 /\ ~ ( /\ <<tripId, list[i].seatNumber>> \in DOMAIN tsa
                        /\ ~ tsa[<<tripId, list[i].seatNumber>>].isAvailable )

\* C21: every list a getSeatAvailability call returns has one entry per seat
\* of the layout, and reports a seat available exactly when no CONFIRMED
\* booking of that bus and date contains it and its seat record is not
\* unavailable, for the trip the call found or the trip it created.
C21_QuerySound ==
  [][ \A busId \in ReqBusIds, date \in Dates :
        /\ (GetSeatAvailabilityFind(busId, date) /\ Succeeded(reply'))
           => soundResponse(reply'.body, tripSeatAvailability,
                            findTrip(busId, date), busId, date)
        /\ (GetSeatAvailabilityCreate(busId, date) /\ Succeeded(reply'))
           => soundResponse(reply'.body, tripSeatAvailability',
                            tripIdCounter, busId, date) ]_vars

\* a query answered that seat 1A is taken on account of a CONFIRMED booking
\* made before the trip existed: the seat record itself says available
C21_Witness ==
  /\ reply.op = "getSeatAvailability" /\ reply.result = "200"
  /\ \E i \in DOMAIN reply.body :
        reply.body[i].seatNumber = "1A" /\ ~ reply.body[i].isAvailable
  /\ confirmedWith(1, "2025-06-01", "1A") # {}
  /\ Len(trips) = 1
  /\ tripSeatAvailability[<<1, "1A">>].isAvailable


\* a returned list shows no CONFIRMED booking of (busId, date) partly applied:
\* the seats of the booking are reported all unavailable or all available
untornResponse(list, busId, date) ==
  \A b \in 1..Len(bookings) :
     ( /\ bookings[b].busId = busId /\ bookings[b].travelDate = date
       /\ bookings[b].status = "confirmed" )
     => LET mine == {i \in DOMAIN list : list[i].seatNumber \in seatsOf(b)}
        IN \/ \A i \in mine : ~ list[i].isAvailable
           \/ \A i \in mine : list[i].isAvailable

\* C22: a createBooking writes the booking, all its seat assignments, the seat
\* flags and the counter in the one step in which it writes any of them, a
\* cancelBooking likewise, and no list a getSeatAvailability call returns
\* shows a booking with some of its seats unavailable and others available.
C22_NoTornReads ==
  [][ /\ \A user \in Customers, req \in BookingRequests, date \in Dates,
           status \in ReqStatuses :
           PostBooking(user, req.busId, date, status, req.seats)
           => LET t == findTrip(req.busId, date)
                  id == bookingIdCounter
                  mine == SelectSeq(bookingDetails',
                                    LAMBDA d : d.bookingId = id)
              IN /\ Len(bookings') = id
                 /\ Len(mine) = Len(req.seats)
                 /\ \A i \in DOMAIN mine : mine[i].seatNumber = req.seats[i]
                 /\ t # 0 =>
                      /\ \A x \in Range(req.seats) :
                           ~ tripSeatAvailability'[<<t, x>>].isAvailable
                      /\ trips'[t].availableSeats
                           = trips[t].availableSeats - Len(req.seats)
      /\ \A user \in UserIds, id \in 1..MaxBookings :
           (PostCancel(user, id) /\ Succeeded(reply'))
           => LET t == findTrip(bookings[id].busId, bookings[id].travelDate)
              IN /\ bookings'[id].status = "cancelled"
                 /\ t # 0 =>
                      /\ \A x \in seatsOf(id) :
                           tripSeatAvailability'[<<t, x>>].isAvailable
                      /\ trips'[t].availableSeats
                           = trips[t].availableSeats + Len(detailsOf(id))
      /\ \A busId \in ReqBusIds, date \in Dates :
           ( /\ \/ GetSeatAvailabilityFind(busId, date)
                \/ GetSeatAvailabilityCreate(busId, date)
             /\ Succeeded(reply') )
           => untornResponse(reply'.body, busId, date)
    ]_vars

\* a query has reported both seats of the CONFIRMED two-seat booking 1 taken
C22_Witness ==
  /\ reply.op = "getSeatAvailability" /\ reply.result = "200"
  /\ Len(bookings) >= 1
  /\ bookings[1].status = "confirmed"
  /\ seatListOf(1) = << "1A", "1B" >>
  /\ \A i \in DOMAIN reply.body :
        reply.body[i].seatNumber \in {"1A", "1B"} => ~ reply.body[i].isAvailable


\* the seat ids that have a seat record in trip t
recordedSeats(t) == {k[2] : k \in {x \in DOMAIN tripSeatAvailability : x[1] = t}}

\* C23: for every materialized trip the seat ids that have a seat record are
\* exactly the seat ids of the layout of its bus.
C23_SeatIdentityFixed ==
  \A t \in 1..Len(trips) : recordedSeats(t) = LayoutSeats(trips[t].busId)

\* C24: for every materialized trip, 0 <= availableSeats <= totalSeats of its
\* bus.
C24_CounterBounds ==
  \A t \in 1..Len(trips) :
     /\ 0 <= trips[t].availableSeats
     /\ trips[t].availableSeats <= getBus(trips[t].busId).totalSeats


\* C25: a getSeatAvailability call for a (busId, date) whose trip exists
\* changes no trip, seat record, counter, booking or id counter and returns
\* what the stored state determines; made right after a call that answered
\* from the same, only trip, it returns the same list.
C25_ReadsArePure ==
  [][ \A busId \in ReqBusIds, date \in Dates :
        (GetSeatAvailabilityFind(busId, date) /\ findTrip(busId, date) # 0)
        => /\ UNCHANGED << storageVars, creating, timers, holdIdCounter >>
           /\ Succeeded(reply')
           /\ reply'.body = queryNow(busId, date)
           /\ ( /\ reply.op = "getSeatAvailability" /\ Succeeded(reply)
                /\ Len(trips) = 1 )
              => reply'.body = reply.body ]_vars

\* a query was answered from the one trip after a booking that found the trip
\* in place had marked seat 1A
C25_Witness ==
  /\ reply.op = "getSeatAvailability" /\ Succeeded(reply)
  /\ Len(trips) = 1 /\ holdIdCounter = 1
  /\ ~ tripSeatAvailability[<<1, "1A">>].isAvailable


(* --------------------------- several trips ---------------------------- *)

\* bus 1 on two dates: queries, bookings of seat 1A and their cancellation
NextTrips ==
  \/ \E date \in AllDates : GetSeatAvailabilityFind(1, date)
  \/ \E date \in AllDates : GetSeatAvailabilityCreate(1, date)
  \/ \E date \in AllDates : PostBooking(1, 1, date, "confirmed", << "1A" >>)
  \/ \E id \in 1..MaxBookings : PostCancel(1, id)

SpecTrips == Init /\ [][NextTrips]_vars

\* a step leaves every trip of another (busId, date) than the given one as it
\* was: its counter, its seat records, and what a query of it returns
otherTripsUnchanged(busId, date) ==
  /\ \A t \in 1..Len(trips) :
        (trips[t].busId # busId \/ trips[t].date # date)
        => /\ trips'[t] = trips[t]
           /\ \A k \in DOMAIN tripSeatAvailability' :
                k[1] = t => /\ k \in DOMAIN tripSeatAvailability
                            /\ tripSeatAvailability'[k] = tripSeatAvailability[k]
  /\ \A d \in AllDates \ {date} : queryNow(busId, d)' = queryNow(busId, d)

\* C26: a createBooking or cancelBooking for one (busId, date) leaves the seat
\* records, the counter and the query result of every other trip unchanged.
C26_TripIsolation ==
  [][ /\ \A date \in AllDates :
           PostBooking(1, 1, date, "confirmed", << "1A" >>)
           => otherTripsUnchanged(1, date)
      /\ \A id \in 1..Len(bookings) :
           PostCancel(1, id)
           => otherTripsUnchanged(bookings[id].busId, bookings[id].travelDate)
    ]_vars

\* with a trip on each date, a booking for the second date has taken seat 1A
\* there and the trip of the first date still has it
C26_Witness ==
  /\ reply = [op |-> "createBooking", result |-> "201"]
  /\ \E t, u \in 1..Len(trips) :
        /\ trips[t].date = "2025-06-01" /\ trips[u].date = "2025-06-02"
        /\ tripSeatAvailability[<<t, "1A">>].isAvailable
        /\ trips[t].availableSeats = getBus(1).totalSeats
        /\ ~ tripSeatAvailability[<<u, "1A">>].isAvailable


(* ------------------------- forged ownership --------------------------- *)

\* the customers who send booking requests
Requesters == {1, 2}

\* requests of customers 1 and 2 whose payload names another user as owner
NextOwner ==
  \/ \E date \in Dates : GetSeatAvailabilityFind(1, date)
  \/ \E date \in Dates : GetSeatAvailabilityCreate(1, date)
  \/ \E user \in Requesters, date \in Dates :
        \E payloadUserId \in UserIds \ {user} :
        PostBookingAs(user, payloadUserId, 1, date, "confirmed", << "1A" >>)
  \/ \E user \in UserIds, id \in 1..MaxBookings : PostCancel(user, id)

SpecOwner == Init /\ [][NextOwner]_vars

\* C27: a booking created through the route is stored with the userId of the
\* authenticated requester whatever userId the payload carried, and the same
\* request with any other payload userId stores the same booking.
C27_OwnerIsRequester ==
  [][ \A user \in Requesters, date \in Dates :
        \A payloadUserId \in UserIds \ {user} :
        PostBookingAs(user, payloadUserId, 1, date, "confirmed", << "1A" >>)
        => /\ bookings'[bookingIdCounter].userId = user
           /\ \A other \in UserIds :
                PostBookingAs(user, other, 1, date, "confirmed", << "1A" >>)
    ]_vars

\* customers 1 and 2 each own the booking they made with a payload that named
\* somebody else
C27_Witness ==
  /\ Len(bookings) = 2
  /\ {bookings[1].userId, bookings[2].userId} = {1, 2}
  /\ reply = [op |-> "createBooking", result |-> "201"]

============================================================================
